---- MODULE Spec2Model ----
(***************************************************************************)
(* Model of src/main.rs: the os-release loader, the fence predicate        *)
(* CodeBlockKindExt::include and the event filter of filter_markdown.      *)
(*                                                                         *)
(* Rust strings are modelled as sequences of one-character strings, so     *)
(* that split_once, split and split_whitespace are computed character by   *)
(* character as the standard library computes them.                        *)
(***************************************************************************)
EXTENDS Integers, Sequences, FiniteSets, TLC

VARIABLES
    pc,          \* position of the run: "load", "iter", "done", "err", "panic", "include", "returned"
    os_input,    \* the items BufReader::lines() yields for the os-release stream
    cx,          \* the context set (HashSet<String>)
    os_release,  \* the OS map (HashMap<String, String>)
    dump,        \* the closure's `dump` flag
    out,         \* the strings yielded by the iterator, in yield order
    open,        \* parser position: "none", "fenced" or "indented" (inside a code block)
    nev,         \* number of events the parser has delivered
    block,       \* the CodeBlockKind of the last code-block start event / include call
    ret,         \* outcome of the last include call: "true", "false", "panic", "none"
    last,        \* type of the last delivered event
    expected     \* history: text events of the fenced blocks whose include is true

vars == <<pc, os_input, cx, os_release, dump, out, open, nev, block, ret, last, expected>>

----------------------------------------------------------------------------
(* Bounds of the model *)

MaxParamLen == 5    \* longest text after "sh:" in an enumerated info-string
MaxEvents == 5      \* longest event stream the parser delivers
MaxLines == 3       \* longest os-release stream of the loader specification
MaxOsLines == 1     \* longest os-release stream of the filter specification
MaxTailLen == 2     \* longest text after a head that is not "sh:"

----------------------------------------------------------------------------
(* Strings *)

WhiteSpace == {" ", "\t"}

\* str::find(ch): index of the first occurrence of ch in s, 0 when absent
RECURSIVE FindFrom(_, _, _)
FindFrom(s, ch, i) ==
    IF i > Len(s) THEN 0
    ELSE IF s[i] = ch THEN i
    ELSE FindFrom(s, ch, i + 1)

Find(s, ch) == FindFrom(s, ch, 1)

\* str::split_once(ch): Option<(&str, &str)> around the first occurrence of ch
split_once(s, ch) ==
    LET i == Find(s, ch) IN
    IF i = 0 THEN [some |-> FALSE, l |-> <<>>, r |-> <<>>]
    ELSE [some |-> TRUE, l |-> SubSeq(s, 1, i - 1), r |-> SubSeq(s, i + 1, Len(s))]

\* str::split(ch): the pieces between occurrences of ch, empty pieces kept
RECURSIVE split(_, _)
split(s, ch) ==
    LET i == Find(s, ch) IN
    IF i = 0 THEN <<s>>
    ELSE <<SubSeq(s, 1, i - 1)>> \o split(SubSeq(s, i + 1, Len(s)), ch)

\* str::split_whitespace(): the maximal runs of non-whitespace characters
RECURSIVE SplitWs(_, _, _)
SplitWs(s, i, cur) ==
    IF i > Len(s) THEN (IF cur = <<>> THEN <<>> ELSE <<cur>>)
    ELSE IF s[i] \in WhiteSpace
         THEN (IF cur = <<>> THEN <<>> ELSE <<cur>>) \o SplitWs(s, i + 1, <<>>)
         ELSE SplitWs(s, i + 1, Append(cur, s[i]))

split_whitespace(s) == SplitWs(s, 1, <<>>)

Range(f) == {f[i] : i \in DOMAIN f}

----------------------------------------------------------------------------
(* CodeBlockKind and the fence predicate *)

Fenced(k) == [tag |-> "Fenced", info |-> k]
Indented == [tag |-> "Indented", info |-> <<>>]

sh == <<"s", "h">>

\* HashMap::get(k).map(String::as_str) == Some(v)
OsHas(os, k, v) == k \in DOMAIN os /\ os[k] = v

\* mutant: every token has to match (the AND semantics of the older variant)
RECURSIVE AllMatch(_, _)
AllMatch(tokens, os) ==
    IF tokens = <<>> THEN "true"
    ELSE LET kv == split_once(Head(tokens), "=") IN
         IF ~kv.some THEN "panic"
         ELSE IF ~OsHas(os, kv.l, kv.r) THEN "false"
         ELSE AllMatch(Tail(tokens), os)

\* .map(|x| x.split_once("=").unwrap()).any(|(k, v)| os.get(k) == Some(v)):
\* the adaptor is lazy and any() stops at the first match, so a token is
\* only unwrapped when no earlier token matched.
RECURSIVE AnyMatch(_, _)
AnyMatch(tokens, os) ==
    IF tokens = <<>> THEN "false"
    ELSE LET kv == split_once(Head(tokens), "=") IN
         IF ~kv.some THEN "panic"
         ELSE IF OsHas(os, kv.l, kv.r) THEN "true"
         ELSE AnyMatch(Tail(tokens), os)

\* mutant: the o.is_empty() shortcut is lost
OsMatchesNoEmpty(o, os) ==
    AnyMatch(split_whitespace(o), os)

\* o.is_empty() || o.split_whitespace()....any(..)
OsMatches(o, os) ==
    IF o = <<>> THEN "true"
    ELSE AnyMatch(split_whitespace(o), os)

\* mutant: the test on the intersection is inverted (is_some for is_none)
CtxFailsInverted(c, cxs) ==
    c # <<>> /\ Range(split(c, ",")) \cap cxs # {}

\* mutant: the context list is not looked at
CtxFailsNever(c, cxs) ==
    FALSE

\* !c.is_empty() && c.split(',').collect::<HashSet<_>>().intersection(cx).next().is_none()
CtxFails(c, cxs) ==
    c # <<>> /\ Range(split(c, ",")) \cap cxs = {}

\* mutant: the language tag is compared by prefix
FenceParamPrefix(kind) ==
    IF kind.tag # "Fenced" THEN [ret |-> "false", param |-> <<>>]
    ELSE LET sp == split_once(kind.info, ":") IN
         IF sp.some /\ Len(sp.l) >= 1 /\ sp.l[1] = "s"
         THEN [ret |-> "param", param |-> sp.r]
         ELSE [ret |-> (IF kind.info = sh THEN "true" ELSE "false"), param |-> <<>>]

\* let param = match self { .. }: either the text after "sh:" or an early return
FenceParam(kind) ==
    IF kind.tag # "Fenced" THEN [ret |-> "false", param |-> <<>>]
    ELSE LET sp == split_once(kind.info, ":") IN
         IF sp.some /\ sp.l = sh
         THEN [ret |-> "param", param |-> sp.r]
         ELSE [ret |-> (IF kind.info = sh THEN "true" ELSE "false"), param |-> <<>>]

\* let (c, o) = param.split_once(';').unwrap_or(("", param))
CtxOs(param) ==
    LET sp == split_once(param, ";") IN
    IF sp.some THEN [c |-> sp.l, o |-> sp.r] ELSE [c |-> <<>>, o |-> param]

\* CodeBlockKindExt::include: "true", "false", or "panic" when unwrap() fails
include(kind, cxs, os) ==
    LET fp == FenceParam(kind) IN
    IF fp.ret # "param" THEN fp.ret
    ELSE LET co == CtxOs(fp.param) IN
         IF CtxFails(co.c, cxs) THEN "false"
         ELSE OsMatches(co.o, os)

----------------------------------------------------------------------------
(* The os-release loader *)

Line(s) == [ok |-> TRUE, line |-> s]       \* Ok(line) from BufRead::lines()
IoErr == [ok |-> FALSE, line |-> <<>>]     \* Err(e) from BufRead::lines()

\* mutant: the looser policy, a line without '=' is skipped
RECURSIVE CollectLoose(_, _, _)
CollectLoose(items, i, acc) ==
    IF i > Len(items) THEN [ok |-> TRUE, map |-> acc]
    ELSE IF ~items[i].ok THEN [ok |-> FALSE, map |-> <<>>]
    ELSE LET kv == split_once(items[i].line, "=") IN
         IF ~kv.some THEN CollectLoose(items, i + 1, acc)
         ELSE CollectLoose(items, i + 1, (kv.l :> kv.r) @@ acc)

\* mutant: the first line of a key wins
RECURSIVE CollectFirstWins(_, _, _)
CollectFirstWins(items, i, acc) ==
    IF i > Len(items) THEN [ok |-> TRUE, map |-> acc]
    ELSE IF ~items[i].ok THEN [ok |-> FALSE, map |-> <<>>]
    ELSE LET kv == split_once(items[i].line, "=") IN
         IF ~kv.some THEN [ok |-> FALSE, map |-> <<>>]
         ELSE CollectFirstWins(items, i + 1, acc @@ (kv.l :> kv.r))

\* .lines().map(..).collect::<Result<HashMap<_, _>>>(): the pairs are inserted
\* in stream order, a later pair replacing an earlier one of the same key; the
\* first Err (a read error, or a line without '=') ends the collection.
RECURSIVE Collect(_, _, _)
Collect(items, i, acc) ==
    IF i > Len(items) THEN [ok |-> TRUE, map |-> acc]
    ELSE IF ~items[i].ok THEN [ok |-> FALSE, map |-> <<>>]
    ELSE LET kv == split_once(items[i].line, "=") IN
         IF ~kv.some THEN [ok |-> FALSE, map |-> <<>>]
         ELSE Collect(items, i + 1, (kv.l :> kv.r) @@ acc)

ReadOsRelease(items) == Collect(items, 1, <<>>)

\* filter_markdown, lines 53-63: build the OS map or return Err
LoadOsRelease ==
    /\ pc = "load"
    /\ LET res == ReadOsRelease(os_input) IN
       IF res.ok
       THEN /\ os_release' = res.map
            /\ pc' = "iter"
       ELSE /\ os_release' = os_release
            /\ pc' = "err"
    /\ UNCHANGED <<os_input, cx, dump, out, open, nev, block, ret, last, expected>>

----------------------------------------------------------------------------
(* Inputs of the filter specification *)

Texts == {"t1", "t2"}

CtxUniverse == {<<"a">>, <<"b">>}

OsItemSamples ==
    { Line(<<"a", "=", "a">>), Line(<<"a", "=", "b">>), Line(<<>>), Line(<<"#">>), IoErr }

OsFiles == UNION {[1..n -> OsItemSamples] : n \in 0..MaxOsLines}

FenceSamples ==
    { <<"s", "h">>,
      <<"t", "x", "t">>,
      <<"s", "h", ":", "a", "=", "a">>,
      <<"s", "h", ":", "a", ",", "b", ";">>,
      <<"s", "h", ":", "b", ";", "a", "=", "a">>,
      <<"s", "h", ":", "a", "=", "a", " ", "x">>,
      <<"s", "h", ":", "b", ";", "x">>,
      <<"s", "h", ":", "x", " ", "a", "=", "a">> }

StartEvents == {[type |-> "Start", block |-> Fenced(k), text |-> ""] : k \in FenceSamples}
                 \cup {[type |-> "Start", block |-> Indented, text |-> ""]}

\* The events pulldown_cmark can deliver next: code blocks do not nest, a code
\* block holds text events only and is closed by the end event of its kind.
ParserNext ==
    IF open = "none"
    THEN StartEvents
           \cup {[type |-> "Text", block |-> Indented, text |-> t] : t \in Texts}
           \cup {[type |-> "Other", block |-> Indented, text |-> ""]}
    ELSE {[type |-> "Text", block |-> block, text |-> t] : t \in Texts}
           \cup {[type |-> "End", block |-> block, text |-> ""]}

\* What delivering event ev does to the parser position and the history
Deliver(ev) ==
    /\ nev' = nev + 1
    /\ last' = ev.type
    /\ open' = CASE ev.type = "Start" -> (IF ev.block.tag = "Fenced" THEN "fenced" ELSE "indented")
                 [] ev.type = "End" -> "none"
                 [] OTHER -> open
    /\ block' = IF ev.type = "Start" THEN ev.block ELSE block
    /\ expected' = IF /\ ev.type = "Text"
                      /\ open = "fenced"
                      /\ include(block, cx, os_release) = "true"
                   THEN Append(expected, ev.text)
                   ELSE expected

Running == pc = "iter" /\ nev < MaxEvents

----------------------------------------------------------------------------
(* The event filter: the arms of the filter_map closure *)

\* Event::Start(Tag::CodeBlock(block)) if block.include(cx, &os_release)
StartIncluded ==
    /\ Running
    /\ \E ev \in ParserNext :
         /\ ev.type = "Start"
         /\ include(ev.block, cx, os_release) = "true"
         /\ ret' = "true"
         /\ dump' = TRUE
         /\ Deliver(ev)
    /\ UNCHANGED <<pc, os_input, cx, os_release, out>>

\* the guard of the first arm panics: unwrap() on a token without '='
StartPanic ==
    /\ Running
    /\ \E ev \in ParserNext :
         /\ ev.type = "Start"
         /\ include(ev.block, cx, os_release) = "panic"
         /\ ret' = "panic"
         /\ Deliver(ev)
    /\ pc' = "panic"
    /\ UNCHANGED <<os_input, cx, os_release, dump, out>>

\* the guard of the first arm is false: the event falls through to `_ => None`
StartSkipped ==
    /\ Running
    /\ \E ev \in ParserNext :
         /\ ev.type = "Start"
         /\ include(ev.block, cx, os_release) = "false"
         /\ ret' = "false"
         /\ Deliver(ev)
    /\ UNCHANGED <<pc, os_input, cx, os_release, dump, out>>

\* mutant: the end of a fenced block leaves the flag as it is
EndFencedKeeps ==
    /\ Running
    /\ \E ev \in ParserNext :
         /\ ev.type = "End"
         /\ ev.block.tag = "Fenced"
         /\ Deliver(ev)
    /\ UNCHANGED <<pc, os_input, cx, os_release, out, ret, dump>>

\* Event::End(Tag::CodeBlock(CodeBlockKind::Fenced(..)))
EndFenced ==
    /\ Running
    /\ \E ev \in ParserNext :
         /\ ev.type = "End"
         /\ ev.block.tag = "Fenced"
         /\ dump' = FALSE
         /\ Deliver(ev)
    /\ UNCHANGED <<pc, os_input, cx, os_release, out, ret>>

\* the end of an indented block: `_ => None`
EndIndented ==
    /\ Running
    /\ \E ev \in ParserNext :
         /\ ev.type = "End"
         /\ ev.block.tag # "Fenced"
         /\ Deliver(ev)
    /\ UNCHANGED <<pc, os_input, cx, os_release, dump, out, ret>>

\* mutant: the text of every fenced block is yielded
TextDumpAnyFenced ==
    /\ Running
    /\ open = "fenced"
    /\ \E ev \in ParserNext :
         /\ ev.type = "Text"
         /\ out' = Append(out, ev.text)
         /\ Deliver(ev)
    /\ UNCHANGED <<pc, os_input, cx, os_release, dump, ret>>

\* Event::Text(text) if dump => Some(text.to_string())
TextDump ==
    /\ Running
    /\ dump
    /\ \E ev \in ParserNext :
         /\ ev.type = "Text"
         /\ out' = Append(out, ev.text)
         /\ Deliver(ev)
    /\ UNCHANGED <<pc, os_input, cx, os_release, dump, ret>>

\* a text event while dump is false: `_ => None`
TextDropped ==
    /\ Running
    /\ ~dump
    /\ \E ev \in ParserNext :
         /\ ev.type = "Text"
         /\ Deliver(ev)
    /\ UNCHANGED <<pc, os_input, cx, os_release, dump, out, ret>>

\* any other Markdown event: `_ => None`
OtherEvent ==
    /\ Running
    /\ \E ev \in ParserNext :
         /\ ev.type = "Other"
         /\ Deliver(ev)
    /\ UNCHANGED <<pc, os_input, cx, os_release, dump, out, ret>>

\* the parser is exhausted: the for loop of main ends and main returns Ok(())
Finish ==
    /\ pc = "iter"
    /\ open = "none"
    /\ pc' = "done"
    /\ UNCHANGED <<os_input, cx, os_release, dump, out, open, nev, block, ret, last, expected>>

Init ==
    /\ pc = "load"
    /\ os_input \in OsFiles
    /\ cx \in SUBSET CtxUniverse
    /\ os_release = <<>>
    /\ dump = FALSE
    /\ out = <<>>
    /\ open = "none"
    /\ nev = 0
    /\ block = Indented
    /\ ret = "none"
    /\ last = "none"
    /\ expected = <<>>

Next ==
    \/ LoadOsRelease
    \/ StartIncluded
    \/ StartPanic
    \/ StartSkipped
    \/ EndFenced
    \/ EndIndented
    \/ TextDump
    \/ TextDropped
    \/ OtherEvent
    \/ Finish

Spec == Init /\ [][Next]_vars

----------------------------------------------------------------------------
(* The loader on its own, over a wider set of os-release streams *)

LoadItems ==
    { Line(<<"a", "=", "a">>),
      Line(<<"a", "=", "b">>),
      Line(<<"a", "=", "\"", "a", "\"">>),
      Line(<<"a", "=", "a", "=", "b">>),
      Line(<<"b", "=", "a">>),
      Line(<<"=", "a">>),
      Line(<<>>),
      Line(<<"#", "a">>),
      IoErr }

LoadInputs == UNION {[1..n -> LoadItems] : n \in 0..MaxLines}

InitLoad ==
    /\ pc = "load"
    /\ os_input \in LoadInputs
    /\ cx = {}
    /\ os_release = <<>>
    /\ dump = FALSE
    /\ out = <<>>
    /\ open = "none"
    /\ nev = 0
    /\ block = Indented
    /\ ret = "none"
    /\ last = "none"
    /\ expected = <<>>

NextLoad == LoadOsRelease

SpecLoad == InitLoad /\ [][NextLoad]_vars

----------------------------------------------------------------------------
(* The fence predicate on its own, over enumerated info-strings *)

ParamChar == {"a", ",", ";", " ", "="}

Params(n) == UNION {[1..m -> ParamChar] : m \in 0..n}

\* info-strings whose language tag is not "sh", or that have no ':' at all
OtherHeads ==
    { <<>>, <<"s", "h">>, <<"s", ":">>, <<"s", "h", "h", ":">>,
      <<"S", "h", ":">>, <<"s", "h", " ", ":">>, <<":">> }

Kinds ==
    {Indented}
      \cup {Fenced(<<"s", "h", ":">> \o p) : p \in Params(MaxParamLen)}
      \cup {Fenced(h \o p) : h \in OtherHeads, p \in Params(MaxTailLen)}

IncludeCtx == {<<"a">>, <<>>}

IncludeOsFiles ==
    { <<>>,
      <<Line(<<"a", "=", "a">>)>>,
      <<Line(<<"a", "=">>)>>,
      <<Line(<<"=", "a">>)>>,
      <<Line(<<"a", "=", "=">>), Line(<<"a", "a", "=", "a">>)>> }

InitInclude ==
    /\ pc = "include"
    /\ os_input = <<>>
    /\ block \in Kinds
    /\ cx \in SUBSET IncludeCtx
    /\ os_release \in {ReadOsRelease(f).map : f \in {g \in IncludeOsFiles : ReadOsRelease(g).ok}}
    /\ dump = FALSE
    /\ out = <<>>
    /\ open = "none"
    /\ nev = 0
    /\ ret = "none"
    /\ last = "none"
    /\ expected = <<>>

\* one call block.include(cx, &os_release) on inputs the program can build
CallInclude ==
    /\ pc = "include"
    /\ ret' = include(block, cx, os_release)
    /\ pc' = "returned"
    /\ UNCHANGED <<os_input, cx, os_release, block, dump, out, open, nev, last, expected>>

NextInclude == CallInclude

SpecInclude == InitInclude /\ [][NextInclude]_vars

----------------------------------------------------------------------------
(* The claims' own reading of an info-string and of an os-release line,      *)
(* stated by position instead of by the scanning the code does               *)

HasChar(s, ch) == \E i \in 1..Len(s) : s[i] = ch

\* the position of the first ch in s (s holds one)
FirstPos(s, ch) == CHOOSE i \in 1..Len(s) : s[i] = ch /\ \A m \in 1..(i - 1) : s[m] # ch

Before(s, ch) == SubSeq(s, 1, FirstPos(s, ch) - 1)
After(s, ch) == SubSeq(s, FirstPos(s, ch) + 1, Len(s))

LangTag(k) == IF HasChar(k, ":") THEN Before(k, ":") ELSE k

IsShFence(kind) == kind.tag = "Fenced" /\ HasChar(kind.info, ":") /\ LangTag(kind.info) = sh

CtxList(k) == IF HasChar(After(k, ":"), ";") THEN Before(After(k, ":"), ";") ELSE <<>>
OsList(k) == IF HasChar(After(k, ":"), ";") THEN After(After(k, ":"), ";") ELSE After(k, ":")

\* the ','-separated tokens of c: the maximal comma-free stretches
CommaTokens(c) ==
    { SubSeq(c, i, j) : <<i, j>> \in
        { ij \in (1..(Len(c) + 1)) \X (0..Len(c)) :
            /\ ij[1] <= ij[2] + 1
            /\ ij[1] = 1 \/ c[ij[1] - 1] = ","
            /\ ij[2] = Len(c) \/ c[ij[2] + 1] = ","
            /\ \A m \in ij[1]..ij[2] : c[m] # "," } }

\* the whitespace-separated tokens of o: the maximal non-empty blank-free stretches
WsTokens(o) ==
    { SubSeq(o, i, j) : <<i, j>> \in
        { ij \in (1..Len(o)) \X (1..Len(o)) :
            /\ ij[1] <= ij[2]
            /\ ij[1] = 1 \/ o[ij[1] - 1] \in WhiteSpace
            /\ ij[2] = Len(o) \/ o[ij[2] + 1] \in WhiteSpace
            /\ \A m \in ij[1]..ij[2] : o[m] \notin WhiteSpace } }

WellFormedOs(o) == \A t \in WsTokens(o) : HasChar(t, "=")

CtxHolds(c, cxs) == c = <<>> \/ \E t \in CommaTokens(c) : t \in cxs

OsHolds(o, os) ==
    o = <<>> \/ \E t \in WsTokens(o) : \E i \in 1..Len(t) :
                    /\ t[i] = "="
                    /\ SubSeq(t, 1, i - 1) \in DOMAIN os
                    /\ os[SubSeq(t, 1, i - 1)] = SubSeq(t, i + 1, Len(t))

----------------------------------------------------------------------------
(* Claims about the event filter, under Spec *)

\* C1: the strings yielded, in yield order, are the text events of exactly the
\* fenced blocks whose include is true, in document order; text outside code
\* blocks, of fenced blocks not selected and of indented blocks is never
\* yielded, and nothing is added between them.
C1_OutputIsSelectedText ==
    pc # "panic" => out = expected

C1_Witness ==
    /\ pc = "done"
    /\ Len(out) >= 2
    /\ out[1] # out[2]
    /\ nev >= Len(out) + 3

\* C5: whenever the event filter evaluates the start of a fenced block whose
\* language tag is sh and whose os-list holds a token without '=', the run
\* aborts, whatever the context set and the OS map are and wherever the token
\* stands.
C5_MalformedFenceAborts ==
    ( /\ pc \in {"iter", "done", "panic"}
      /\ last = "Start"
      /\ IsShFence(block)
      /\ ~WellFormedOs(OsList(block.info)) )
    => pc = "panic"

\* C6: an os-release line without '=' (a blank line and a comment line
\* included) makes filter_markdown return an error, and then no event is
\* processed and nothing is yielded; when every line holds '=', the iterator
\* is returned.
C6_StrictOsRelease ==
    pc # "load" =>
      /\ (\E i \in 1..Len(os_input) : os_input[i].ok /\ ~HasChar(os_input[i].line, "="))
           => (pc = "err" /\ nev = 0 /\ out = <<>> /\ ~dump /\ last = "none")
      /\ (\A i \in 1..Len(os_input) : os_input[i].ok /\ HasChar(os_input[i].line, "="))
           => pc \in {"iter", "done", "panic"}

C6_Witness ==
    /\ pc = "err"
    /\ \E i \in 1..Len(os_input) : os_input[i] = Line(<<>>)

\* C10: the dump flag is true exactly while the stream is inside a fenced
\* block whose predicate matched: false at the start of the stream, false
\* between blocks, inside indented blocks and at the end of the stream.
C10_DumpBit ==
    /\ dump = (open = "fenced" /\ include(block, cx, os_release) = "true")
    /\ nev = 0 => ~dump
    /\ pc = "done" => ~dump

C10_Witness ==
    /\ dump
    /\ last = "Text"
    /\ nev >= 4

----------------------------------------------------------------------------
(* Claims about include, under SpecInclude *)

\* C2: for an info-string sh:<ctx-list>;<os-list> (or sh:<os-list>) whose
\* os-list tokens all hold '=', include is true iff (the ctx-list is empty or
\* one of its ','-separated tokens is in the context set) and (the os-list is
\* empty or one of its whitespace-separated tokens KEY=VALUE has M[KEY] = VALUE).
C2_IncludeDecision ==
    ( /\ pc = "returned"
      /\ IsShFence(block)
      /\ WellFormedOs(OsList(block.info)) )
    => ret = IF /\ CtxHolds(CtxList(block.info), cx)
                /\ OsHolds(OsList(block.info), os_release)
             THEN "true" ELSE "false"

C2_Witness ==
    /\ pc = "returned"
    /\ block = Fenced(<<"s", "h", ":", "a", ";", "a", "=", "a">>)
    /\ cx = {<<"a">>}
    /\ ret = "true"

\* C3: if include is true for a context set, it is true for every larger one.
C3_ContextMonotone ==
    (pc = "returned" /\ ret = "true")
    => \A c2 \in SUBSET (IncludeCtx \cup {<<"a", "a">>}) :
          cx \subseteq c2 => include(block, c2, os_release) = "true"

C3_Witness ==
    /\ pc = "returned"
    /\ ret = "true"
    /\ IsShFence(block)
    /\ CtxList(block.info) # <<>>
    /\ cx # {}
    /\ cx # IncludeCtx

\* further KEY=VALUE tokens to append to an os-list
MoreTokens ==
    { <<"a", "=", "a">>, <<"a", "=">>, <<"=", "a">>, <<"a", "=", "=">>,
      <<"b", "=", "a">>, <<"a", "=", ";", "a">> }

Appended(kind, t) == Fenced(kind.info \o <<" ">> \o t)

\* appending t to the info-string extends its os-list and keeps its ctx-list
ExtendsOsList(kind, t) ==
    /\ CtxList(Appended(kind, t).info) = CtxList(kind.info)
    /\ OsList(Appended(kind, t).info) = OsList(kind.info) \o <<" ">> \o t

\* C4: appending a further KEY=VALUE token to a non-empty os-list of
\* well-formed tokens keeps the result of include or turns it from false to
\* true, never from true to false.
C4_OsListMonotone ==
    ( /\ pc = "returned"
      /\ IsShFence(block)
      /\ WsTokens(OsList(block.info)) # {}
      /\ WellFormedOs(OsList(block.info)) )
    => \A t \in MoreTokens :
          ExtendsOsList(block, t) =>
            /\ ret \in {"true", "false"}
            /\ include(Appended(block, t), cx, os_release) \in {"true", "false"}
            /\ ret = "true" => include(Appended(block, t), cx, os_release) = "true"

C4_Witness ==
    /\ pc = "returned"
    /\ IsShFence(block)
    /\ WsTokens(OsList(block.info)) # {}
    /\ WellFormedOs(OsList(block.info))
    /\ ret = "false"
    /\ \E t \in MoreTokens :
          /\ ExtendsOsList(block, t)
          /\ include(Appended(block, t), cx, os_release) = "true"

\* C7: for a code block whose language tag is not exactly sh, and for an
\* indented code block, include is false and raises no error, even when the
\* text after ':' would be a malformed os-list.
C7_OtherLanguagesSkipped ==
    ( /\ pc = "returned"
      /\ block.tag = "Indented" \/ LangTag(block.info) # sh )
    => ret = "false"

C7_Witness ==
    /\ pc = "returned"
    /\ block = Fenced(<<"s", ":", "a">>)
    /\ ret = "false"

\* C8: the info-strings sh, sh: and sh:; are selected for every context set
\* and every OS map.
C8_NoConstraints ==
    ( /\ pc = "returned"
      /\ block.tag = "Fenced"
      /\ block.info \in {sh, <<"s", "h", ":">>, <<"s", "h", ":", ";">>} )
    => ret = "true"

C8_Witness ==
    /\ pc = "returned"
    /\ block = Fenced(<<"s", "h", ":">>)
    /\ cx = {}
    /\ os_release = <<>>
    /\ ret = "true"

----------------------------------------------------------------------------
(* Claims about the loader, under SpecLoad *)

\* line i is the last line of its key
LastOfKey(i) ==
    \A j \in (i + 1)..Len(os_input) :
        Before(os_input[j].line, "=") # Before(os_input[i].line, "=")

\* C9: when every line holds '=', the OS map has exactly the keys of the
\* lines (the text before the first '=') and maps each to the text after the
\* first '=' of the last line of that key, verbatim; so the token a=a is
\* satisfied iff the last line of key a is a=a, and not by a="a".
C9_LastWriteVerbatim ==
    pc = "iter" =>
      /\ DOMAIN os_release = {Before(os_input[i].line, "=") : i \in 1..Len(os_input)}
      /\ \A i \in 1..Len(os_input) :
            LastOfKey(i) =>
              os_release[Before(os_input[i].line, "=")] = After(os_input[i].line, "=")
      /\ (include(Fenced(<<"s", "h", ":", "a", "=", "a">>), {}, os_release) = "true")
           <=> \E i \in 1..Len(os_input) :
                  LastOfKey(i) /\ os_input[i].line = <<"a", "=", "a">>

C9_Witness ==
    /\ pc = "iter"
    /\ Len(os_input) >= 2
    /\ os_input[1] = Line(<<"a", "=", "a">>)
    /\ os_input[2] = Line(<<"a", "=", "\"", "a", "\"">>)
    /\ os_release[<<"a">>] = <<"\"", "a", "\"">>

====
